---- MODULE Spec2Model ----
(***************************************************************************)
(* A model of the object pool of src/src/lib.rs: Pool<T> (a mutex around a *)
(* Vec<T> used as a stack), the borrowed guard Reusable<'a, T> and the     *)
(* owned guard ReusableOwned<T>.                                           *)
(*                                                                         *)
(* A value of type T is a record [id, data]: id is the identity of the     *)
(* object (which allocation it is), data is its content (the tests use a   *)
(* Vec and push to it; data counts the pushes).                            *)
(*                                                                         *)
(* Every pool operation takes the mutex: a thread calls the operation      *)
(* (pc "wait"), acquires the lock (pc "locked"), and runs the body under   *)
(* the lock, which releases it.  Caller code (detach, deref_mut, cloning   *)
(* or dropping a handle, building a guard with Reusable::new) runs at pc   *)
(* "idle" or "done".  The fallback closure of pull / pull_owned runs at    *)
(* pc "fallback", after the lock was released; a closure that uses the     *)
(* pool itself suspends its pull in outer and resumes it when it returns.  *)
(*                                                                         *)
(* stats counts where the values came from (the constructor, a fallback,   *)
(* the caller) and how many detached values the callers dropped.           *)
(*                                                                         *)
(* history is a window over the pops and pushes in the order they took     *)
(* effect.  Its length is fixed by the initial state: behaviours that      *)
(* start in Init have the empty window and observe states and steps        *)
(* only; behaviours that start in InitSeq or InitVec have a window of      *)
(* Window entries, the last one being the construction of the pool.        *)
(*                                                                         *)
(* Specifications:                                                         *)
(*   Spec      all threads, every operation, no history                    *)
(*   SpecSeq   one thread, pulls, drops, detach and attach, with history   *)
(*   SpecPar   all threads, pulls, drops, detach and attach, with history  *)
(*   SpecNew   one thread, try_pull, detach, Reusable::new and attach of   *)
(*             the caller's own values, with history                       *)
(*   SpecVec   one thread, a pool built by Pool::from_vec, with history    *)
(*   SpecLive  all threads, the operations of the pool under a fair lock   *)
(*             and terminating closures (Fairness)                         *)
(***************************************************************************)
EXTENDS Integers, Sequences, FiniteSets, TLC

\* ---------------------------------------------------------------- bounds
NThreads  == 2   \* threads using the pool
MaxCap    == 1   \* largest count given to Pool::new
MaxVals   == 2   \* values ever constructed (by init, fallback or the caller)
MaxGuards == 2   \* guards alive at the same time
MaxData   == 1   \* pushes the caller makes to one value
MaxStrong == 2   \* largest strong count of the Arc
Window    == 4   \* pops and pushes the history of SpecSeq remembers
MaxDepth  == 1   \* pulls one thread has suspended in their fallback closures

Threads == 1..NThreads

None == [id |-> 0, data |-> 0]          \* Option::None / no value in hand

Idle == [op |-> "idle", val |-> None, g |-> 0, orig |-> None, nmut |-> 0]

\* a guard slot without a guard
Free == [kind |-> "none", data |-> None, st |-> "free", returns |-> 0]

\* what ret holds after try_pull / try_pull_owned returned None
NoGuard == -1

VARIABLES
    objects,    \* Pool.objects: the stack, top = last element
    lock,       \* holder of the mutex of Pool.objects, 0 = free
    pc,         \* per thread: "idle", "wait", "locked", "fallback", "release", "done"
    cur,        \* per thread: the operation in progress and the value it moves
    ret,        \* per thread: the result it has just got from len(), is_empty(),
                \* or NoGuard from try_pull() / try_pull_owned()
    guards,     \* the guards alive (Reusable and ReusableOwned), by slot; returns
                \* counts the times the guard's Drop has pushed its value
    detached,   \* values the callers hold after detach()
    strong,     \* strong count of the Arc<Pool<T>>
    handles,    \* Arc handles the callers hold
    nextId,     \* identity of the next value constructed
    history,    \* the last pops and pushes, in the order they took effect
    outer,      \* per thread: the pulls suspended in their fallback closure
                \* while the closure calls the pool, innermost last
    stats       \* where the values came from and went: init, the values the
                \* pool was built with; the numbers of values built by a
                \* fallback, brought in by the caller, and discarded

vars == <<objects, lock, pc, cur, ret, guards, detached, strong, handles, nextId, history,
         outer, stats>>

\* ---------------------------------------------------------------- helpers
RECURSIVE InitObjects(_)
\* (0..cap).map(|_| init()).collect(): init is called cap times, in order
InitObjects(cap) ==
    IF cap = 0 THEN <<>>
    ELSE Append(InitObjects(cap - 1), [id |-> cap, data |-> 0])

\* a pop from the wrong end of the vector
pop_first(s) == IF Len(s) = 0 THEN None ELSE s[1]

\* Vec::pop: the last element, or None
pop(s) == IF Len(s) = 0 THEN None ELSE s[Len(s)]

\* a pop that hands the last element out and leaves it in the vector
popped_kept(s) == s

\* the vector Vec::pop leaves behind
popped(s) == IF Len(s) = 0 THEN s ELSE SubSeq(s, 1, Len(s) - 1)

\* a push that loses the value
push_lost(s, t) == s

\* a push at the wrong end of the vector
push_under(s, t) == <<t>> \o s

\* a push that resets the value it stores
push_reset(s, t) == Append(s, [t EXCEPT !.data = 0])

\* Vec::push
push(s, t) == Append(s, t)

\* the caller's mutation of a value through DerefMut (Vec::push in the tests)
mutated(v) == [v EXCEPT !.data = @ + 1]

PullOps == {"try_pull", "pull", "try_pull_owned", "pull_owned"}

\* threads inside a pull, each of which may still create a guard
Pulling == {t \in Threads : pc[t] # "idle" /\ cur[t].op \in PullOps}

\* threads inside pull / pull_owned, each of which may still call fallback
MayFallback == {t \in Threads : pc[t] # "idle" /\ cur[t].op \in {"pull", "pull_owned"}}

\* threads inside an owned pull, each of which may still clone the Arc
PullingOwned ==
    {t \in Threads : pc[t] # "idle" /\ cur[t].op \in {"try_pull_owned", "pull_owned"}}

RECURSIVE Suspended(_, _)
\* the pulls with an operation in ops that the threads in ts have suspended in
\* their fallback closure
Suspended(ops, ts) ==
    IF ts = {} THEN 0
    ELSE LET t == CHOOSE u \in ts : TRUE
         IN  Cardinality({i \in 1..Len(outer[t]) : outer[t][i] \in ops})
                + Suspended(ops, ts \ {t})

\* the pulls in progress that may still create a guard
Pending == Cardinality(Pulling) + Suspended(PullOps, Threads)

\* the pulls in progress that may still call fallback and build a value
PendingFallback == Cardinality(MayFallback) + Suspended({"pull", "pull_owned"}, Threads)

\* the owned pulls in progress that may still clone the Arc
PendingOwned == Cardinality(PullingOwned) + Suspended({"pull_owned"}, Threads)

Slots == 1..MaxGuards

FreeSlots == {g \in Slots : guards[g].st = "free"}

\* the slot a new guard takes
NewSlot == CHOOSE g \in FreeSlots : \A h \in FreeSlots : g <= h

Live(g) == guards[g].st \in {"live", "dropping"}

\* one entry of the history: operation o moved value v (None: the pop found
\* the stack empty); before/after are the stack's lengths around it; orig
\* and nmut are, for a value that was detached, the value as it was at
\* detach() and the number of mutations the caller made since
Event(o, v, before, after, orig, nmut) ==
    [op |-> o, val |-> v, before |-> before, after |-> after,
     orig |-> orig, nmut |-> nmut]

Blank == Event("none", None, 0, 0, None, 0)

\* the history after one more event: the window slides
Record(h, e) == IF Len(h) = 0 THEN h ELSE Append(Tail(h), e)

\* a constructor that clears the value it wraps
Reusable_new_cleared(t) ==
    [kind |-> "ref", data |-> [t EXCEPT !.data = 0], st |-> "live", returns |-> 0]

\* Reusable::new(pool, t): a live borrowed guard around t
Reusable_new(t) == [kind |-> "ref", data |-> t, st |-> "live", returns |-> 0]

\* ReusableOwned::new(pool, t): a live owned guard around t
ReusableOwned_new(t) == [kind |-> "arc", data |-> t, st |-> "live", returns |-> 0]

\* ---------------------------------------------------------------- initial state
\* Pool::new(cap, init), held in one Arc by the caller
New(cap, h) ==
    /\ objects = InitObjects(cap)
    /\ nextId = cap + 1
    /\ lock = 0
    /\ pc = [t \in Threads |-> "idle"]
    /\ cur = [t \in Threads |-> Idle]
    /\ ret = [t \in Threads |-> 0]
    /\ guards = [g \in Slots |-> Free]
    /\ detached = {}
    /\ strong = 1
    /\ handles = 1
    /\ history = h
    /\ outer = [t \in Threads |-> <<>>]
    /\ stats = [init |-> objects, fallback |-> 0, caller |-> 0, discarded |-> 0]

Init == \E cap \in 0..MaxCap : New(cap, <<>>)

\* the values a caller may own before there is a pool
Values == [id : 1..MaxGuards, data : 0..MaxData]

\* the vectors of distinct values a caller may give to Pool::from_vec
Vecs ==
    {v \in UNION {[1..n -> Values] : n \in 0..MaxGuards} :
        \A i, j \in DOMAIN v : i # j => v[i].id # v[j].id}

\* a from_vec that fills the stack from the front: the first element ends on top
from_vec_reversed(v, h) ==
    /\ objects = [i \in 1..Len(v) |-> v[Len(v) + 1 - i]]
    /\ nextId = MaxGuards + 1
    /\ lock = 0
    /\ pc = [t \in Threads |-> "idle"]
    /\ cur = [t \in Threads |-> Idle]
    /\ ret = [t \in Threads |-> 0]
    /\ guards = [g \in Slots |-> Free]
    /\ detached = {}
    /\ strong = 1
    /\ handles = 1
    /\ history = h
    /\ outer = [t \in Threads |-> <<>>]
    /\ stats = [init |-> v, fallback |-> 0, caller |-> 0, discarded |-> 0]

\* Pool::from_vec(v), and Pool::from_iter, which collects into such a vector:
\* the vector is the stack
from_vec(v, h) ==
    /\ objects = v
    /\ nextId = MaxGuards + 1
    /\ lock = 0
    /\ pc = [t \in Threads |-> "idle"]
    /\ cur = [t \in Threads |-> Idle]
    /\ ret = [t \in Threads |-> 0]
    /\ guards = [g \in Slots |-> Free]
    /\ detached = {}
    /\ strong = 1
    /\ handles = 1
    /\ history = h
    /\ outer = [t \in Threads |-> <<>>]
    /\ stats = [init |-> v, fallback |-> 0, caller |-> 0, discarded |-> 0]

InitVec ==
    \E v \in Vecs :
        from_vec(v, [i \in 1..Window |->
                       IF i < Window THEN Blank
                       ELSE Event("from_vec", None, 0, Len(v), None, 0)])

InitSeq ==
    \E cap \in 0..MaxCap :
        New(cap, [i \in 1..Window |->
                    IF i < Window THEN Blank ELSE Event("new", None, 0, cap, None, 0)])

\* ---------------------------------------------------------------- calls
\* a thread calls len, is_empty or one of the pulls and starts waiting for the lock
Call(t, o) ==
    /\ pc[t] = "idle"
    /\ o \in {"len", "is_empty"} \cup PullOps
    /\ handles >= 1
    /\ o \in PullOps => Cardinality(FreeSlots) > Pending
    /\ o \in {"pull", "pull_owned"} => nextId + PendingFallback <= MaxVals
    /\ o \in {"try_pull_owned", "pull_owned"} => strong + PendingOwned < MaxStrong
    /\ pc' = [pc EXCEPT ![t] = "wait"]
    /\ cur' = [cur EXCEPT ![t] = [Idle EXCEPT !.op = o]]
    /\ UNCHANGED <<objects, lock, ret, guards, detached, strong, handles, nextId, history, outer, stats>>

\* a lock that lets a thread in while another one holds it
Lock_barging(t) ==
    /\ pc[t] = "wait"
    /\ lock' = t
    /\ pc' = [pc EXCEPT ![t] = "locked"]
    /\ UNCHANGED <<objects, cur, ret, guards, detached, strong, handles, nextId, history, outer, stats>>

\* parking_lot::Mutex::lock
Lock(t) ==
    /\ pc[t] = "wait"
    /\ lock = 0
    /\ lock' = t
    /\ pc' = [pc EXCEPT ![t] = "locked"]
    /\ UNCHANGED <<objects, cur, ret, guards, detached, strong, handles, nextId, history, outer, stats>>

\* the caller takes the result of len(), is_empty() or a pull that gave None
Return(t) ==
    /\ pc[t] = "done"
    /\ pc' = [pc EXCEPT ![t] = "idle"]
    /\ ret' = [ret EXCEPT ![t] = 0]
    /\ UNCHANGED <<objects, lock, cur, guards, detached, strong, handles, nextId, history, outer, stats>>

\* ---------------------------------------------------------------- Pool
\* Pool::len, under the lock
len(t) ==
    /\ pc[t] = "locked" /\ cur[t].op = "len"
    /\ ret' = [ret EXCEPT ![t] = Len(objects)]
    /\ lock' = 0
    /\ pc' = [pc EXCEPT ![t] = "done"]
    /\ cur' = [cur EXCEPT ![t] = Idle]
    /\ UNCHANGED <<objects, guards, detached, strong, handles, nextId, history, outer, stats>>

\* Pool::is_empty, under the lock (1 = true, 0 = false)
is_empty(t) ==
    /\ pc[t] = "locked" /\ cur[t].op = "is_empty"
    /\ ret' = [ret EXCEPT ![t] = IF Len(objects) = 0 THEN 1 ELSE 0]
    /\ lock' = 0
    /\ pc' = [pc EXCEPT ![t] = "done"]
    /\ cur' = [cur EXCEPT ![t] = Idle]
    /\ UNCHANGED <<objects, guards, detached, strong, handles, nextId, history, outer, stats>>

\* a pull written with unwrap_or(Reusable::new(self, fallback())): fallback is
\* called whether or not the pop found a value, and when it did, the guard
\* around the value fallback built is dropped at once and its value pushed
try_pull_eager_fallback(t) ==
    /\ pc[t] = "locked" /\ cur[t].op \in {"try_pull", "pull"}
    /\ LET data == pop(objects)
           eager == data # None /\ cur[t].op = "pull"
       IN  /\ objects' = IF eager THEN push(popped(objects), [id |-> nextId, data |-> 0])
                                   ELSE popped(objects)
           /\ nextId' = IF eager THEN nextId + 1 ELSE nextId
           /\ stats' = IF eager THEN [stats EXCEPT !.fallback = @ + 1] ELSE stats
           /\ history' = Record(history,
                  Event(cur[t].op, data, Len(objects), Len(objects'), None, 0))
           /\ IF data # None
                 THEN /\ guards' = [guards EXCEPT ![NewSlot] = Reusable_new(data)]
                      /\ pc' = [pc EXCEPT ![t] = "idle"]
                      /\ cur' = [cur EXCEPT ![t] = Idle]
                      /\ ret' = ret
                 ELSE /\ guards' = guards
                      /\ IF cur[t].op = "pull"
                            THEN /\ pc' = [pc EXCEPT ![t] = "fallback"]
                                 /\ cur' = cur
                                 /\ ret' = ret
                            ELSE /\ pc' = [pc EXCEPT ![t] = "done"]
                                 /\ cur' = [cur EXCEPT ![t] = Idle]
                                 /\ ret' = [ret EXCEPT ![t] = NoGuard]
    /\ lock' = 0
    /\ UNCHANGED <<detached, strong, handles, outer>>

\* a pull written as one expression, lock().pop().map(..).unwrap_or_else(..):
\* the MutexGuard lives to the end of it, so the fallback runs under the lock
try_pull_holding(t) ==
    /\ pc[t] = "locked" /\ cur[t].op \in {"try_pull", "pull"}
    /\ LET data == pop(objects)
       IN  /\ objects' = popped(objects)
           /\ history' = Record(history,
                  Event(cur[t].op, data, Len(objects), Len(objects'), None, 0))
           /\ IF data # None
                 THEN /\ guards' = [guards EXCEPT ![NewSlot] = Reusable_new(data)]
                      /\ pc' = [pc EXCEPT ![t] = "idle"]
                      /\ cur' = [cur EXCEPT ![t] = Idle]
                      /\ ret' = ret
                      /\ lock' = 0
                 ELSE /\ guards' = guards
                      /\ IF cur[t].op = "pull"
                            THEN /\ pc' = [pc EXCEPT ![t] = "fallback"]
                                 /\ cur' = cur
                                 /\ ret' = ret
                                 /\ lock' = lock
                            ELSE /\ pc' = [pc EXCEPT ![t] = "done"]
                                 /\ cur' = [cur EXCEPT ![t] = Idle]
                                 /\ ret' = [ret EXCEPT ![t] = NoGuard]
                                 /\ lock' = 0
    /\ UNCHANGED <<detached, strong, handles, nextId, outer, stats>>

\* Pool::try_pull (also the first half of Pool::pull): pop under the lock and
\* wrap the value in a Reusable; on None, pull goes on to its fallback
try_pull(t) ==
    /\ pc[t] = "locked" /\ cur[t].op \in {"try_pull", "pull"}
    /\ LET data == pop(objects)
       IN  /\ objects' = popped(objects)
           /\ history' = Record(history,
                  Event(cur[t].op, data, Len(objects), Len(objects'), None, 0))
           /\ IF data # None
                 THEN /\ guards' = [guards EXCEPT ![NewSlot] = Reusable_new(data)]
                      /\ pc' = [pc EXCEPT ![t] = "idle"]
                      /\ cur' = [cur EXCEPT ![t] = Idle]
                      /\ ret' = ret
                 ELSE /\ guards' = guards
                      /\ IF cur[t].op = "pull"
                            THEN /\ pc' = [pc EXCEPT ![t] = "fallback"]
                                 /\ cur' = cur
                                 /\ ret' = ret
                            ELSE /\ pc' = [pc EXCEPT ![t] = "done"]
                                 /\ cur' = [cur EXCEPT ![t] = Idle]
                                 /\ ret' = [ret EXCEPT ![t] = NoGuard]
    /\ lock' = 0
    /\ UNCHANGED <<detached, strong, handles, nextId, outer, stats>>

\* a pull whose fallback value is counted by the pool as soon as it is built
pull_growing(t) ==
    /\ pc[t] = "fallback" /\ cur[t].op = "pull"
    /\ LET data == [id |-> nextId, data |-> 0]
       IN  /\ guards' = [guards EXCEPT ![NewSlot] = Reusable_new(data)]
           /\ objects' = Append(objects, data)
           /\ history' = Record(history,
                  Event("fallback", data, Len(objects), Len(objects'), None, 0))
    /\ nextId' = nextId + 1
    /\ stats' = [stats EXCEPT !.fallback = @ + 1]
    /\ pc' = [pc EXCEPT ![t] = "idle"]
    /\ cur' = [cur EXCEPT ![t] = Idle]
    /\ UNCHANGED <<lock, ret, detached, strong, handles, outer>>

\* Pool::pull, after try_pull returned None: Reusable::new(self, fallback())
pull(t) ==
    /\ pc[t] = "fallback" /\ cur[t].op = "pull"
    /\ LET data == [id |-> nextId, data |-> 0]
       IN  /\ guards' = [guards EXCEPT ![NewSlot] = Reusable_new(data)]
           /\ history' = Record(history,
                  Event("fallback", data, Len(objects), Len(objects), None, 0))
    /\ nextId' = nextId + 1
    /\ stats' = [stats EXCEPT !.fallback = @ + 1]
    /\ pc' = [pc EXCEPT ![t] = "idle"]
    /\ cur' = [cur EXCEPT ![t] = Idle]
    /\ UNCHANGED <<objects, lock, ret, detached, strong, handles, outer>>

\* a try_pull_owned that clones the Arc before it knows whether there is a value
try_pull_owned_eager(t) ==
    /\ pc[t] = "locked" /\ cur[t].op \in {"try_pull_owned", "pull_owned"}
    /\ LET data == pop(objects)
       IN  /\ objects' = popped(objects)
           /\ history' = Record(history,
                  Event(cur[t].op, data, Len(objects), Len(objects'), None, 0))
           /\ strong' = strong + 1
           /\ IF data # None
                 THEN /\ guards' = [guards EXCEPT ![NewSlot] = ReusableOwned_new(data)]
                      /\ pc' = [pc EXCEPT ![t] = "idle"]
                      /\ cur' = [cur EXCEPT ![t] = Idle]
                      /\ ret' = ret
                 ELSE /\ guards' = guards
                      /\ IF cur[t].op = "pull_owned"
                            THEN /\ pc' = [pc EXCEPT ![t] = "fallback"]
                                 /\ cur' = cur
                                 /\ ret' = ret
                            ELSE /\ pc' = [pc EXCEPT ![t] = "done"]
                                 /\ cur' = [cur EXCEPT ![t] = Idle]
                                 /\ ret' = [ret EXCEPT ![t] = NoGuard]
    /\ lock' = 0
    /\ UNCHANGED <<detached, handles, nextId, outer, stats>>

\* Pool::try_pull_owned (also the first half of Pool::pull_owned): pop under
\* the lock and wrap the value in a ReusableOwned holding a clone of the Arc
try_pull_owned(t) ==
    /\ pc[t] = "locked" /\ cur[t].op \in {"try_pull_owned", "pull_owned"}
    /\ LET data == pop(objects)
       IN  /\ objects' = popped(objects)
           /\ history' = Record(history,
                  Event(cur[t].op, data, Len(objects), Len(objects'), None, 0))
           /\ IF data # None
                 THEN /\ guards' = [guards EXCEPT ![NewSlot] = ReusableOwned_new(data)]
                      /\ strong' = strong + 1
                      /\ pc' = [pc EXCEPT ![t] = "idle"]
                      /\ cur' = [cur EXCEPT ![t] = Idle]
                      /\ ret' = ret
                 ELSE /\ guards' = guards
                      /\ strong' = strong
                      /\ IF cur[t].op = "pull_owned"
                            THEN /\ pc' = [pc EXCEPT ![t] = "fallback"]
                                 /\ cur' = cur
                                 /\ ret' = ret
                            ELSE /\ pc' = [pc EXCEPT ![t] = "done"]
                                 /\ cur' = [cur EXCEPT ![t] = Idle]
                                 /\ ret' = [ret EXCEPT ![t] = NoGuard]
    /\ lock' = 0
    /\ UNCHANGED <<detached, handles, nextId, outer, stats>>

\* Pool::pull_owned, after try_pull_owned returned None:
\* ReusableOwned::new(self.clone(), fallback())
pull_owned(t) ==
    /\ pc[t] = "fallback" /\ cur[t].op = "pull_owned"
    /\ LET data == [id |-> nextId, data |-> 0]
       IN  /\ guards' = [guards EXCEPT ![NewSlot] = ReusableOwned_new(data)]
           /\ history' = Record(history,
                  Event("fallback", data, Len(objects), Len(objects), None, 0))
    /\ strong' = strong + 1
    /\ nextId' = nextId + 1
    /\ stats' = [stats EXCEPT !.fallback = @ + 1]
    /\ pc' = [pc EXCEPT ![t] = "idle"]
    /\ cur' = [cur EXCEPT ![t] = Idle]
    /\ UNCHANGED <<objects, lock, ret, detached, handles, outer>>

\* an attach that keeps the pool at the count given to Pool::new: a value
\* that would make it longer is dropped
attach_capped(t) ==
    /\ pc[t] = "locked" /\ cur[t].op \in {"attach", "drop", "drop_owned"}
    /\ objects' = IF Len(objects) >= Len(stats.init) THEN objects ELSE push(objects, cur[t].val)
    /\ history' = Record(history,
           Event(cur[t].op, cur[t].val, Len(objects), Len(objects'),
                 cur[t].orig, cur[t].nmut))
    /\ lock' = 0
    /\ CASE cur[t].op = "attach" ->
              /\ guards' = guards
              /\ pc' = [pc EXCEPT ![t] = "idle"]
              /\ cur' = [cur EXCEPT ![t] = Idle]
         [] cur[t].op = "drop" ->
              /\ guards' = [guards EXCEPT ![cur[t].g] = Free]
              /\ pc' = [pc EXCEPT ![t] = "idle"]
              /\ cur' = [cur EXCEPT ![t] = Idle]
         [] cur[t].op = "drop_owned" ->
              /\ guards' = [guards EXCEPT ![cur[t].g].returns = @ + 1]
              /\ pc' = [pc EXCEPT ![t] = "release"]
              /\ cur' = [cur EXCEPT ![t].val = None]
    /\ UNCHANGED <<ret, detached, strong, handles, nextId, outer, stats>>

\* Pool::attach: push under the lock.  Called by the caller ("attach"), by
\* Drop for Reusable ("drop"), whose guard is gone when it returns, and by
\* Drop for ReusableOwned ("drop_owned"), which has its Arc to release yet
attach(t) ==
    /\ pc[t] = "locked" /\ cur[t].op \in {"attach", "drop", "drop_owned"}
    /\ objects' = push(objects, cur[t].val)
    /\ history' = Record(history,
           Event(cur[t].op, cur[t].val, Len(objects), Len(objects'),
                 cur[t].orig, cur[t].nmut))
    /\ lock' = 0
    /\ CASE cur[t].op = "attach" ->
              /\ guards' = guards
              /\ pc' = [pc EXCEPT ![t] = "idle"]
              /\ cur' = [cur EXCEPT ![t] = Idle]
         [] cur[t].op = "drop" ->
              /\ guards' = [guards EXCEPT ![cur[t].g] = Free]
              /\ pc' = [pc EXCEPT ![t] = "idle"]
              /\ cur' = [cur EXCEPT ![t] = Idle]
         [] cur[t].op = "drop_owned" ->
              /\ guards' = [guards EXCEPT ![cur[t].g].returns = @ + 1]
              /\ pc' = [pc EXCEPT ![t] = "release"]
              /\ cur' = [cur EXCEPT ![t].val = None]
    /\ UNCHANGED <<ret, detached, strong, handles, nextId, outer, stats>>

\* the fallback closure of pull / pull_owned runs caller code that uses the
\* pool: the pull is suspended, and until the closure returns the thread is a
\* caller like any other
fallback_runs(t) ==
    /\ pc[t] = "fallback"
    /\ Len(outer[t]) < MaxDepth
    /\ outer' = [outer EXCEPT ![t] = Append(@, cur[t].op)]
    /\ cur' = [cur EXCEPT ![t] = Idle]
    /\ pc' = [pc EXCEPT ![t] = "idle"]
    /\ UNCHANGED <<objects, lock, ret, guards, detached, strong, handles, nextId, history, stats>>

\* the closure's use of the pool is over, whatever the result of its last
\* call was: the suspended pull goes on
fallback_returns(t) ==
    /\ pc[t] \in {"idle", "done"}
    /\ outer[t] # <<>>
    /\ cur' = [cur EXCEPT ![t] = [Idle EXCEPT !.op = outer[t][Len(outer[t])]]]
    /\ outer' = [outer EXCEPT ![t] = SubSeq(@, 1, Len(@) - 1)]
    /\ pc' = [pc EXCEPT ![t] = "fallback"]
    /\ ret' = [ret EXCEPT ![t] = 0]
    /\ UNCHANGED <<objects, lock, guards, detached, strong, handles, nextId, history, stats>>

\* ---------------------------------------------------------------- guards
\* a Drop that leaves the value in its ManuallyDrop: the guard goes, the
\* value is returned to nobody
drop_leaking(t, g) ==
    /\ pc[t] = "idle"
    /\ guards[g].kind = "ref" /\ guards[g].st = "live"
    /\ guards' = [guards EXCEPT ![g] = Free]
    /\ UNCHANGED <<objects, lock, pc, cur, ret, detached, strong, handles, nextId, history, outer, stats>>

\* Drop for Reusable: take the value out of the guard and call pool.attach
drop(t, g) ==
    /\ pc[t] = "idle"
    /\ guards[g].kind = "ref" /\ guards[g].st = "live"
    /\ guards' = [guards EXCEPT ![g].st = "dropping", ![g].data = None]
    /\ cur' = [cur EXCEPT ![t] = [Idle EXCEPT !.op = "drop", !.val = guards[g].data,
                                              !.g = g]]
    /\ pc' = [pc EXCEPT ![t] = "wait"]
    /\ UNCHANGED <<objects, lock, ret, detached, strong, handles, nextId, history, outer, stats>>

\* Drop for ReusableOwned: take the Arc and the value, call pool.attach
drop_owned(t, g) ==
    /\ pc[t] = "idle"
    /\ guards[g].kind = "arc" /\ guards[g].st = "live"
    /\ guards' = [guards EXCEPT ![g].st = "dropping", ![g].data = None]
    /\ cur' = [cur EXCEPT ![t] = [Idle EXCEPT !.op = "drop_owned", !.val = guards[g].data,
                                              !.g = g]]
    /\ pc' = [pc EXCEPT ![t] = "wait"]
    /\ UNCHANGED <<objects, lock, ret, detached, strong, handles, nextId, history, outer, stats>>

\* a Drop for ReusableOwned that takes only the value: the Arc stays in its
\* ManuallyDrop and is never dropped
release_leaking(t) ==
    /\ pc[t] = "release" /\ cur[t].op = "drop_owned"
    /\ guards' = [guards EXCEPT ![cur[t].g] = Free]
    /\ pc' = [pc EXCEPT ![t] = "idle"]
    /\ cur' = [cur EXCEPT ![t] = Idle]
    /\ UNCHANGED <<objects, lock, ret, detached, strong, handles, nextId, history, outer, stats>>

\* the end of Drop for ReusableOwned: the local `pool` (the guard's Arc) is dropped
release(t) ==
    /\ pc[t] = "release" /\ cur[t].op = "drop_owned"
    /\ strong' = strong - 1
    /\ guards' = [guards EXCEPT ![cur[t].g] = Free]
    /\ pc' = [pc EXCEPT ![t] = "idle"]
    /\ cur' = [cur EXCEPT ![t] = Idle]
    /\ UNCHANGED <<objects, lock, ret, detached, handles, nextId, history, outer, stats>>

\* what the caller holds after detach(): the value, and for the history the
\* value as it was at detach time and the mutations made since
Detached(guard) == [val |-> guard.data, orig |-> guard.data, nmut |-> 0]

\* a detach without forget(self): the value goes to the caller and the guard's
\* Drop still runs and returns the value it no longer owns
detach_unforgotten(t, g) ==
    /\ pc[t] = "idle"
    /\ guards[g].kind = "ref" /\ guards[g].st = "live"
    /\ detached' = detached \cup {Detached(guards[g])}
    /\ guards' = [guards EXCEPT ![g].st = "dropping", ![g].data = None]
    /\ cur' = [cur EXCEPT ![t] = [Idle EXCEPT !.op = "drop", !.val = guards[g].data,
                                              !.g = g]]
    /\ pc' = [pc EXCEPT ![t] = "wait"]
    /\ UNCHANGED <<objects, lock, ret, strong, handles, nextId, history, outer, stats>>

\* Reusable::detach: (self.pool, self.take()), forget(self): no Drop runs
detach(t, g) ==
    /\ pc[t] = "idle"
    /\ guards[g].kind = "ref" /\ guards[g].st = "live"
    /\ detached' = detached \cup {Detached(guards[g])}
    /\ guards' = [guards EXCEPT ![g] = Free]
    /\ UNCHANGED <<objects, lock, pc, cur, ret, strong, handles, nextId, history, outer, stats>>

\* an owned detach without forget(self): the caller gets the Arc and the value,
\* and the guard's Drop still runs on what was taken
detach_owned_unforgotten(t, g) ==
    /\ pc[t] = "idle"
    /\ guards[g].kind = "arc" /\ guards[g].st = "live"
    /\ detached' = detached \cup {Detached(guards[g])}
    /\ handles' = handles + 1
    /\ guards' = [guards EXCEPT ![g].st = "dropping", ![g].data = None]
    /\ cur' = [cur EXCEPT ![t] = [Idle EXCEPT !.op = "drop_owned", !.val = guards[g].data,
                                              !.g = g]]
    /\ pc' = [pc EXCEPT ![t] = "wait"]
    /\ UNCHANGED <<objects, lock, ret, strong, nextId, history, outer, stats>>

\* ReusableOwned::detach: self.take() gives (Arc, value), forget(self): the
\* guard's Arc becomes a handle of the caller
detach_owned(t, g) ==
    /\ pc[t] = "idle"
    /\ guards[g].kind = "arc" /\ guards[g].st = "live"
    /\ detached' = detached \cup {Detached(guards[g])}
    /\ handles' = handles + 1
    /\ guards' = [guards EXCEPT ![g] = Free]
    /\ UNCHANGED <<objects, lock, pc, cur, ret, strong, nextId, history, outer, stats>>

\* DerefMut for Reusable / ReusableOwned: the caller mutates the wrapped value
deref_mut(t, g) ==
    /\ pc[t] = "idle"
    /\ guards[g].st = "live"
    /\ guards[g].data.data < MaxData
    /\ guards' = [guards EXCEPT ![g].data = mutated(@)]
    /\ UNCHANGED <<objects, lock, pc, cur, ret, detached, strong, handles, nextId, history, outer, stats>>

\* ---------------------------------------------------------------- caller
\* the callers still use a reference borrowed from their handles: a borrowed
\* guard is alive, or a pool operation called through a handle is running
Borrowing ==
    \/ \E g \in Slots : guards[g].kind = "ref"
    \/ \E t \in Threads : \/ pc[t] # "idle" /\ cur[t].op # "drop_owned"
                          \/ outer[t] # <<>>

\* the caller mutates a value it holds detached
mutate(t) ==
    \E d \in detached :
    /\ pc[t] = "idle"
    /\ d.val.data < MaxData
    /\ detached' = (detached \ {d}) \cup {[d EXCEPT !.val = mutated(@), !.nmut = @ + 1]}
    /\ UNCHANGED <<objects, lock, pc, cur, ret, guards, strong, handles, nextId, history, outer, stats>>

\* the caller calls pool.attach(value) with a detached value
call_attach(t) ==
    \E d \in detached :
    /\ pc[t] = "idle"
    /\ handles >= 1
    /\ detached' = detached \ {d}
    /\ cur' = [cur EXCEPT ![t] = [Idle EXCEPT !.op = "attach", !.val = d.val,
                                              !.orig = d.orig, !.nmut = d.nmut]]
    /\ pc' = [pc EXCEPT ![t] = "wait"]
    /\ UNCHANGED <<objects, lock, ret, guards, strong, handles, nextId, history, outer, stats>>

\* the caller calls pool.attach(value) with a value it built itself
call_attach_new(t) ==
    /\ pc[t] = "idle"
    /\ handles >= 1
    /\ nextId + PendingFallback <= MaxVals
    /\ cur' = [cur EXCEPT ![t] = [Idle EXCEPT !.op = "attach",
                                              !.val = [id |-> nextId, data |-> 0]]]
    /\ nextId' = nextId + 1
    /\ stats' = [stats EXCEPT !.caller = @ + 1]
    /\ pc' = [pc EXCEPT ![t] = "wait"]
    /\ UNCHANGED <<objects, lock, ret, guards, detached, strong, handles, history, outer>>

\* the caller wraps a detached value in a new guard: Reusable::new(&pool, value)
new(t) ==
    \E d \in detached :
    /\ pc[t] = "idle"
    /\ handles >= 1
    /\ Cardinality(FreeSlots) > Pending
    /\ detached' = detached \ {d}
    /\ guards' = [guards EXCEPT ![NewSlot] = Reusable_new(d.val)]
    /\ history' = Record(history,
           Event("new_guard", d.val, Len(objects), Len(objects), d.orig, d.nmut))
    /\ UNCHANGED <<objects, lock, pc, cur, ret, strong, handles, nextId, outer, stats>>

\* the caller wraps a value it built itself in a new guard:
\* Reusable::new(&pool, value)
new_built(t) ==
    /\ pc[t] = "idle"
    /\ handles >= 1
    /\ Cardinality(FreeSlots) > Pending
    /\ nextId + PendingFallback <= MaxVals
    /\ guards' = [guards EXCEPT ![NewSlot] = Reusable_new([id |-> nextId, data |-> 0])]
    /\ nextId' = nextId + 1
    /\ stats' = [stats EXCEPT !.caller = @ + 1]
    /\ UNCHANGED <<objects, lock, pc, cur, ret, detached, strong, handles, history, outer>>

\* the caller wraps a detached value in a new owned guard, giving it one of
\* its handles (the last one only when nothing borrows from it):
\* ReusableOwned::new(pool, value)
new_owned(t) ==
    \E d \in detached :
    /\ pc[t] = "idle"
    /\ handles >= 1
    /\ handles = 1 => ~Borrowing
    /\ Cardinality(FreeSlots) > Pending
    /\ detached' = detached \ {d}
    /\ handles' = handles - 1
    /\ guards' = [guards EXCEPT ![NewSlot] = ReusableOwned_new(d.val)]
    /\ UNCHANGED <<objects, lock, pc, cur, ret, strong, nextId, history, outer, stats>>

\* the caller drops a detached value without attaching it
discard(t) ==
    \E d \in detached :
    /\ pc[t] = "idle"
    /\ detached' = detached \ {d}
    /\ stats' = [stats EXCEPT !.discarded = @ + 1]
    /\ UNCHANGED <<objects, lock, pc, cur, ret, guards, strong, handles, nextId, history, outer>>

\* the caller clones one of its Arc handles
clone_handle(t) ==
    /\ pc[t] = "idle"
    /\ handles >= 1
    /\ strong + PendingOwned < MaxStrong
    /\ handles' = handles + 1
    /\ strong' = strong + 1
    /\ UNCHANGED <<objects, lock, pc, cur, ret, guards, detached, nextId, history, outer, stats>>

\* the caller drops one of its Arc handles; the borrow checker lets the last
\* one go only when nothing borrows from it.  The pool is released when the
\* strong count reaches 0
drop_handle(t) ==
    /\ pc[t] = "idle"
    /\ handles >= 1
    /\ handles = 1 => ~Borrowing
    /\ handles' = handles - 1
    /\ strong' = strong - 1
    /\ UNCHANGED <<objects, lock, pc, cur, ret, guards, detached, nextId, history, outer, stats>>

\* ---------------------------------------------------------------- specification
\* one step of thread t
Step(t) ==
    \/ \E o \in {"len", "is_empty"} \cup PullOps : Call(t, o)
    \/ Lock(t)
    \/ Return(t)
    \/ len(t)
    \/ is_empty(t)
    \/ try_pull(t)
    \/ pull(t)
    \/ try_pull_owned(t)
    \/ pull_owned(t)
    \/ attach(t)
    \/ release(t)
    \/ \E g \in Slots :
          \/ drop(t, g)
          \/ drop_owned(t, g)
          \/ detach(t, g)
          \/ detach_owned(t, g)
          \/ deref_mut(t, g)
    \/ mutate(t)
    \/ call_attach(t)
    \/ new(t)
    \/ new_owned(t)
    \/ discard(t)
    \/ call_attach_new(t)
    \/ new_built(t)
    \/ clone_handle(t)
    \/ drop_handle(t)
    \/ fallback_runs(t)
    \/ fallback_returns(t)

\* several threads share the pool
Next == \E t \in Threads : Step(t)

Spec == Init /\ [][Next]_vars

\* one thread pulls, returns, detaches and reattaches values, and the history
\* remembers its last pops and pushes
NextSeq ==
    \/ \E o \in PullOps : Call(1, o)
    \/ Lock(1)
    \/ Return(1)
    \/ try_pull(1)
    \/ pull(1)
    \/ try_pull_owned(1)
    \/ pull_owned(1)
    \/ attach(1)
    \/ release(1)
    \/ \E g \in Slots :
          \/ drop(1, g)
          \/ drop_owned(1, g)
          \/ detach(1, g)
          \/ detach_owned(1, g)
          \/ deref_mut(1, g)
    \/ mutate(1)
    \/ call_attach(1)
    \/ discard(1)

SpecSeq == InitSeq /\ [][NextSeq]_vars

\* one step of a thread that pulls, drops its guards, and detaches and
\* reattaches values
StepPar(t) ==
    \/ \E o \in PullOps : Call(t, o)
    \/ Lock(t)
    \/ Return(t)
    \/ try_pull(t)
    \/ pull(t)
    \/ try_pull_owned(t)
    \/ pull_owned(t)
    \/ attach(t)
    \/ release(t)
    \/ \E g \in Slots :
          \/ drop(t, g)
          \/ drop_owned(t, g)
          \/ detach(t, g)
    \/ call_attach(t)

\* several threads contend for the pool, and the history remembers the last
\* pops and pushes in the order they took effect
NextPar == \E t \in Threads : StepPar(t)

SpecPar == InitSeq /\ [][NextPar]_vars

\* one thread pulls, detaches, mutates what it detached and gives values to
\* the pool, its own and detached ones, by pool.attach or through a new guard
NextNew ==
    \/ Call(1, "try_pull")
    \/ Lock(1)
    \/ Return(1)
    \/ try_pull(1)
    \/ attach(1)
    \/ \E g \in Slots :
          \/ drop(1, g)
          \/ detach(1, g)
    \/ mutate(1)
    \/ new(1)
    \/ call_attach(1)
    \/ call_attach_new(1)

SpecNew == InitSeq /\ [][NextNew]_vars

\* one thread asks a pool built from a vector for its length and pulls from
\* it, keeping every guard alive
NextVec ==
    \/ \E o \in {"len", "is_empty", "try_pull"} : Call(1, o)
    \/ Lock(1)
    \/ Return(1)
    \/ len(1)
    \/ is_empty(1)
    \/ try_pull(1)

SpecVec == InitVec /\ [][NextVec]_vars

\* one step of a thread that uses every operation of the pool, also from
\* inside the fallback closure of a pull
StepLive(t) ==
    \/ \E o \in {"len", "is_empty"} \cup PullOps : Call(t, o)
    \/ Lock(t)
    \/ Return(t)
    \/ len(t)
    \/ is_empty(t)
    \/ try_pull(t)
    \/ pull(t)
    \/ try_pull_owned(t)
    \/ pull_owned(t)
    \/ attach(t)
    \/ release(t)
    \/ \E g \in Slots :
          \/ drop(t, g)
          \/ drop_owned(t, g)
          \/ detach(t, g)
          \/ detach_owned(t, g)
    \/ call_attach(t)
    \/ fallback_runs(t)
    \/ fallback_returns(t)

NextLive == \E t \in Threads : StepLive(t)

\* the code of the pool that a thread runs once it has the lock, and the end
\* of Drop for ReusableOwned: straight-line code
Body(t) ==
    \/ len(t)
    \/ is_empty(t)
    \/ try_pull(t)
    \/ try_pull_owned(t)
    \/ attach(t)
    \/ release(t)

\* threads keep running the pool's code; the lock is fair: a thread that
\* waits for it gets it, however often other threads take it; closures
\* terminate: a fallback that uses the pool stops doing so, and it returns
Fairness ==
    \A t \in Threads :
        /\ WF_vars(Body(t))
        /\ SF_vars(Lock(t))
        /\ SF_vars(fallback_returns(t))
        /\ SF_vars(pull(t) \/ pull_owned(t))

SpecLive == Init /\ [][NextLive]_vars /\ Fairness

\* ---------------------------------------------------------------- properties
W == Len(history)

IsPull(e) == e.op \in PullOps

\* C1: on a pool freshly built by Pool::new(N, init), while the only pool
\* operations so far are try_pull calls (no guard was returned, nothing was
\* attached), the i-th try_pull returns a guard exactly when i <= N: the first
\* N calls return a guard and the (N+1)-th returns None.
C1_FreshPoolYieldsCapacity ==
    \A j \in 1..W :
        (/\ history[j].op = "new"
         /\ \A i \in (j + 1)..W : history[i].op = "try_pull")
        => \A i \in (j + 1)..W :
              (history[i].val # None) <=> (i - j <= history[j].after)

\* a pool of capacity 1 after three try_pull calls: a guard, then None
C1_Witness ==
    /\ W >= 3
    /\ history[W - 2].op = "new" /\ history[W - 2].after = 1
    /\ history[W - 1].op = "try_pull" /\ history[W - 1].val # None
    /\ history[W].op = "try_pull" /\ history[W].val = None
    /\ pc[1] = "done" /\ ret[1] = NoGuard

\* the values wrapped by guards that are alive and still hold their value
LiveGuards == {g \in Slots : guards[g].st = "live"}

\* C2: no two guards that are alive at the same time, borrowed or owned, wrap
\* the same underlying value, whatever the threads have done so far.
C2_GuardsWrapDistinctValues ==
    \A g, h \in LiveGuards : g # h => guards[g].data.id # guards[h].data.id

\* two guards alive at once, one borrowed and one owned
C2_Witness ==
    \E g, h \in LiveGuards : guards[g].kind = "ref" /\ guards[h].kind = "arc"

\* the identities of the values in a set of values
Ids(vs) == {v.id : v \in vs}

InStack == {objects[i] : i \in 1..Len(objects)}

InGuards == {guards[g].data : g \in LiveGuards}

InHands == {d.val : d \in detached}

\* values a pool.attach in progress is about to push
InFlight == {cur[t].val : t \in {u \in Threads : cur[u].op \in {"attach", "drop", "drop_owned"}
                                                  /\ cur[u].val # None}}

\* C3: a value that is in the pool's stack is wrapped by no live guard and is
\* not held by a caller as a detached value, and no value occurs twice in the
\* stack; a value outside the stack has exactly one owner (one guard, one
\* caller holding it detached, or one attach that is pushing it).
C3_StackValuesAreUnowned ==
    /\ Ids(InStack) \cap Ids(InGuards) = {}
    /\ Ids(InStack) \cap Ids(InHands) = {}
    /\ \A i, j \in 1..Len(objects) : i # j => objects[i].id # objects[j].id
    /\ Ids(InGuards) \cap Ids(InHands) = {}
    /\ Ids(InFlight) \cap (Ids(InStack) \cup Ids(InGuards) \cup Ids(InHands)) = {}
    /\ Cardinality(InGuards) = Cardinality(LiveGuards)
    /\ Cardinality(Ids(InHands)) = Cardinality(detached)

\* a value is back in the stack, returned by a guard's Drop, while the other
\* value is held detached by a caller
C3_Witness ==
    /\ Len(objects) = 1
    /\ detached # {}
    /\ \E t \in Threads : pc[t] = "release"

\* what one step does to the guard in slot g, when the guard is not detached
ReturnsOnce(g) ==
    \* Drop starts: one thread takes the wrapped value, the stack is untouched
    /\ (guards[g].st = "live" /\ guards'[g].st = "dropping")
          => /\ objects' = objects
             /\ \E t \in Threads :
                   /\ cur'[t].op \in {"drop", "drop_owned"}
                   /\ cur'[t].g = g
                   /\ cur'[t].val = guards[g].data
    \* the return action: the wrapped value goes on top of the stack
    /\ (guards[g].st = "dropping" /\ guards[g].returns = 0 /\ guards'[g] # guards[g])
          => \E t \in Threads :
                /\ cur[t].g = g
                /\ cur[t].val # None
                /\ objects' = Append(objects, cur[t].val)
    \* Drop ends: by then the value has been pushed once, not zero times, not twice
    /\ (guards[g].st = "dropping" /\ guards'[g].st = "free")
          => guards[g].returns + (IF objects' # objects THEN 1 ELSE 0) = 1

\* C4: for every guard that is not detached, the return action (attach of the
\* wrapped value to the pool) fires exactly once, when the guard is dropped:
\* the value is pushed onto the stack once per guard lifetime, never zero
\* times and never twice.
C4_ReturnFiresExactlyOnce ==
    /\ [](\A g \in Slots : guards[g].returns <= 1
                           /\ (guards[g].st = "live" => guards[g].returns = 0))
    /\ [][\A g \in Slots : ReturnsOnce(g)]_vars

\* an owned guard whose Drop has pushed the value and is about to end, while
\* the value of a borrowed guard dropped before it is in the stack as well
C4_Witness ==
    /\ \E g \in Slots : guards[g].st = "dropping" /\ guards[g].returns = 1
    /\ Len(objects) = 2

\* the event made a guard: a pop that found a value, or the fallback of a pull
Popped(e) == IsPull(e) /\ e.val # None

Creates(e) == Popped(e) \/ e.op = "fallback"

IsDrop(e) == e.op \in {"drop", "drop_owned"}

\* a detached value is out of the pool and no Drop will return it
DetachedStaysOut ==
    Ids(InHands) \cap (Ids(InStack) \cup Ids(InGuards) \cup Ids(InFlight)) = {}

\* the step is a detach of the guard in slot g: the stack is left as it was,
\* the caller holds the value, and no Drop has been started for the guard
DetachFrame(g) ==
    (guards[g].st = "live" /\ guards'[g].st = "free")
       => /\ objects' = objects
          /\ history' = history
          /\ guards[g].data \in InHands'
          /\ \A t \in Threads : cur'[t] = cur[t]

\* the value made by the last pool operation is held detached
LastPullDetached == \E d \in detached : Creates(history[W]) /\ d.val.id = history[W].val.id

\* C5 as claimed: detach() leaves the stack unchanged and disables the guard's
\* automatic return, and while the caller does not attach the detached value
\* and no other pool operation happens, the pool's length is one lower than
\* it was before the pull.
C5_AsClaimed ==
    /\ [](DetachedStaysOut /\ (LastPullDetached => Len(objects) = history[W].before - 1))
    /\ [][\A g \in Slots : DetachFrame(g)]_vars

\* C5, amended: detach() leaves the stack unchanged and disables the guard's
\* automatic return; while the caller does not attach the detached value and
\* no other pool operation happens, the pool's length is one lower than
\* before the pull when the pull popped the value from the stack, and equal to
\* what it was before the pull when the value came from the fallback.
C5_DetachKeepsValueOut ==
    /\ [](/\ DetachedStaysOut
          /\ (LastPullDetached /\ Popped(history[W]))
                => Len(objects) = history[W].before - 1
          /\ (LastPullDetached /\ history[W].op = "fallback")
                => Len(objects) = history[W].before)
    /\ [][\A g \in Slots : DetachFrame(g)]_vars

\* a value popped by try_pull_owned was detached and mutated by the caller;
\* the pool, that held one value before the pull, is empty
C5_Witness ==
    /\ history[W].op = "try_pull_owned" /\ history[W].before = 1
    /\ \E d \in detached : d.val.id = history[W].val.id /\ d.nmut = 1
    /\ handles = 2
    /\ objects = <<>>

\* C6 as claimed: a pull followed directly by the drop of its guard leaves the
\* pool's length as it was before the pull, and a pull that directly follows
\* the drop returns the value the guard returned.
C6_AsClaimed ==
    \A i \in 1..(W - 1) :
        (Creates(history[i]) /\ IsDrop(history[i + 1])
            /\ history[i + 1].val.id = history[i].val.id)
        => /\ history[i + 1].after = history[i].before
           /\ (i + 2 <= W /\ IsPull(history[i + 2]))
                 => history[i + 2].val = history[i + 1].val

\* C6, amended: a pull followed directly by the drop of its guard leaves the
\* pool's length as it was before the pull when the pull popped the value from
\* the stack, and one higher when the value came from the fallback; in both
\* cases a pull that directly follows the drop returns the value the guard
\* returned.  With capacity 1: try_pull gives a guard, a second try_pull gives
\* None, the drop of the guard makes the length 1, a third try_pull gives a guard.
C6_PullThenDropRestores ==
    /\ \A i \in 1..(W - 1) :
          (Creates(history[i]) /\ IsDrop(history[i + 1])
              /\ history[i + 1].val.id = history[i].val.id)
          => /\ Popped(history[i]) => history[i + 1].after = history[i].before
             /\ history[i].op = "fallback" => history[i + 1].after = history[i].before + 1
             /\ (i + 2 <= W /\ IsPull(history[i + 2]))
                   => history[i + 2].val = history[i + 1].val
    /\ \A i \in 1..(W - 3) :
          (/\ history[i].op = "try_pull" /\ history[i].before = 1
           /\ history[i + 1].op = "try_pull"
           /\ history[i + 2].op = "drop" /\ history[i + 2].val.id = history[i].val.id
           /\ history[i + 3].op = "try_pull")
          => /\ history[i].val # None
             /\ history[i + 1].val = None
             /\ history[i + 2].after = 1
             /\ history[i + 3].val # None

\* the capacity-1 scenario: a guard, None, the drop, the same value again
C6_Witness ==
    /\ W >= 4
    /\ history[W - 3].op = "try_pull" /\ history[W - 3].before = 1
    /\ history[W - 2].op = "try_pull" /\ history[W - 2].val = None
    /\ history[W - 1].op = "drop" /\ history[W - 1].after = 1
    /\ history[W].op = "try_pull" /\ history[W].val = history[W - 1].val
    /\ history[W].val.id = history[W - 3].val.id

\* C7: LIFO reuse.  When k guards are dropped one after the other with no
\* other pool operation in between and pulls follow directly, the m-th pull
\* returns the value of the m-th last guard dropped: for k = 2, guards
\* returned in the order A, B give B and then A.  The k drops make the pool k
\* values longer.
C7_LifoReuse ==
    \A i, j \in 1..W :
        (i <= j /\ \A x \in i..j : IsDrop(history[x]))
        => /\ history[j].after = history[i].before + (j - i + 1)
           /\ \A m \in 0..(j - i) :
                 (j + 1 + m <= W /\ \A y \in (j + 1)..(j + 1 + m) : IsPull(history[y]))
                 => history[j + 1 + m].val = history[j - m].val

\* two guards dropped in the order A, B and two pulls that give B, then A
C7_Witness ==
    /\ W >= 4
    /\ IsDrop(history[W - 3]) /\ IsDrop(history[W - 2])
    /\ history[W - 3].val.id # history[W - 2].val.id
    /\ IsPull(history[W - 1]) /\ history[W - 1].val = history[W - 2].val
    /\ IsPull(history[W]) /\ history[W].val = history[W - 3].val

\* the event is pool.attach(value) with a value the caller had detached
Reattach(e) == e.op = "attach" /\ e.orig # None

\* the value as it was at detach time plus the mutations the caller made
Roundtrip(e) == [id |-> e.orig.id, data |-> e.orig.data + e.nmut]

\* C8 as claimed: a pull that directly follows the attach of a detached value
\* returns the value as it was at detach time plus the caller's mutations,
\* and an attach that directly follows the pull of the value it reattaches
\* leaves the pool's length as it was before that pull.
C8_AsClaimed ==
    \A i \in 1..(W - 1) :
        /\ (Reattach(history[i]) /\ IsPull(history[i + 1]))
              => history[i + 1].val = Roundtrip(history[i])
        /\ (Creates(history[i]) /\ Reattach(history[i + 1])
                /\ history[i + 1].val.id = history[i].val.id)
              => history[i + 1].after = history[i].before

\* C8, amended: a pull that directly follows the attach of a detached value
\* returns the value as it was at detach time plus the caller's mutations; an
\* attach that directly follows the pull of the value it reattaches leaves
\* the pool's length as it was before that pull when the pull popped the
\* value from the stack, and one higher when the value came from the fallback.
C8_DetachAttachRoundtrip ==
    \A i \in 1..(W - 1) :
        /\ (Reattach(history[i]) /\ IsPull(history[i + 1]))
              => history[i + 1].val = Roundtrip(history[i])
        /\ (Popped(history[i]) /\ Reattach(history[i + 1])
                /\ history[i + 1].val.id = history[i].val.id)
              => history[i + 1].after = history[i].before
        /\ (history[i].op = "fallback" /\ Reattach(history[i + 1])
                /\ history[i + 1].val.id = history[i].val.id)
              => history[i + 1].after = history[i].before + 1

\* tests::detach_then_attach: try_pull, detach, one push to the value, attach,
\* try_pull: the pool is back at length 1 and the value comes back with the push
C8_Witness ==
    /\ W >= 3
    /\ history[W - 2].op = "try_pull" /\ history[W - 2].before = 1
    /\ Reattach(history[W - 1]) /\ history[W - 1].nmut = 1
    /\ history[W - 1].val.id = history[W - 2].val.id
    /\ history[W - 1].after = 1
    /\ history[W].op = "try_pull"
    /\ history[W].val = [id |-> history[W - 2].val.id, data |-> history[W - 2].val.data + 1]

\* the step is the fallback half of pull / pull_owned by thread t: it makes a
\* live guard around the value fallback built and does not touch the stack
FallbackMakesGuard(t) ==
    (pc[t] = "fallback" /\ pc'[t] # "fallback")
       => /\ objects' = objects
          /\ \E g \in Slots :
                /\ guards[g].st = "free"
                /\ guards'[g].st = "live"
                /\ guards'[g].data = [id |-> nextId, data |-> 0]
                /\ history'[W] = Event("fallback", guards'[g].data, 0, 0, None, 0)

\* C9: pull(fallback) on an empty pool returns a guard around the value built
\* by fallback and leaves the pool's length at 0; the length stays 0 while
\* nothing else happens to the pool, and it becomes 1 when that guard is
\* dropped or its detached value is attached.  With capacity 0: try_pull gives
\* None, pull(fallback) gives a guard, and after its drop the length is 1.
C9_FallbackGrowsOnReturnOnly ==
    /\ [](/\ \A i \in 1..W :
               /\ (history[i].op \in {"pull", "pull_owned"} /\ history[i].val = None)
                     => /\ history[i].before = 0 /\ history[i].after = 0
                        /\ i < W => history[i + 1].op = "fallback"
               /\ history[i].op = "fallback"
                     => /\ history[i].before = 0 /\ history[i].after = 0
                        /\ history[i].val # None
                        /\ (i < W /\ history[i + 1].val.id = history[i].val.id)
                              => /\ IsDrop(history[i + 1]) \/ Reattach(history[i + 1])
                                 /\ history[i + 1].after = 1
          /\ history[W].op = "fallback"
                => /\ objects = <<>>
                   /\ history[W].val.id \notin Ids(InStack))
    /\ [][\A t \in Threads : FallbackMakesGuard(t)]_vars

\* the capacity-0 scenario: try_pull gave None, pull built a value, the guard
\* was dropped and the pool holds one value
C9_Witness ==
    /\ W >= 4
    /\ history[W - 3].op = "try_pull" /\ history[W - 3].val = None
    /\ history[W - 3].before = 0
    /\ history[W - 2].op = "pull" /\ history[W - 2].val = None
    /\ history[W - 1].op = "fallback"
    /\ history[W].op = "drop" /\ history[W].val.id = history[W - 1].val.id
    /\ Len(objects) = 1

\* thread t is in the body of try_pull / try_pull_owned, under the lock
InTryPull(t) == pc[t] = "locked" /\ cur[t].op \in {"try_pull", "try_pull_owned"}

\* the body of try_pull / try_pull_owned run by t on the empty stack: it
\* returns None to the caller and changes neither the stack, nor the guards,
\* nor the strong count
ExhaustedGivesNone(t) ==
    (InTryPull(t) /\ objects = <<>> /\ pc'[t] # "locked")
       => /\ pc'[t] = "done"
          /\ ret'[t] = NoGuard
          /\ objects' = objects
          /\ guards' = guards
          /\ strong' = strong
          /\ lock' = 0

\* C10: try_pull and try_pull_owned on an empty stack return None at once:
\* their body can always run, whether or not the stack holds a value (there
\* is no wait for a value), and on the empty stack it leaves the stack, the
\* guards and the Arc's strong count unchanged.
C10_ExhaustionIsAValue ==
    /\ [](\A t \in Threads :
             /\ (pc[t] = "locked" /\ cur[t].op = "try_pull") => ENABLED try_pull(t)
             /\ (pc[t] = "locked" /\ cur[t].op = "try_pull_owned")
                   => ENABLED try_pull_owned(t))
    /\ [][\A t \in Threads : ExhaustedGivesNone(t)]_vars

\* a thread has got None from the empty pool while the value is out in a
\* guard that the other thread is returning
C10_Witness ==
    \E t, u \in Threads :
        /\ pc[t] = "done" /\ ret[t] = NoGuard
        /\ objects = <<>>
        /\ pc[u] = "wait" /\ cur[u].op = "drop_owned"

\* caller code runs on thread t: t is between pool operations (with or
\* without guards alive), inside the fallback closure of pull / pull_owned,
\* or has just got the result of an operation
CallerCode(t) == pc[t] \in {"idle", "fallback", "done"}

\* what a step does while thread t holds the lock: nothing to the stack and
\* the lock as long as t does not move, and when t moves it is the end of one
\* length read, one pop or one push, and the lock is free again
HeldForOne(t) ==
    lock = t
       => IF pc'[t] = pc[t]
             THEN lock' = t /\ objects' = objects
             ELSE /\ lock' = 0
                  /\ \/ objects' = objects /\ cur[t].op \in {"len", "is_empty"}
                     \/ /\ cur[t].op \in PullOps
                        /\ Len(objects') = IF objects = <<>> THEN 0 ELSE Len(objects) - 1
                     \/ /\ cur[t].op \in {"attach", "drop", "drop_owned"}
                        /\ Len(objects') = Len(objects) + 1

\* C11: the pool's lock is held only for one pop, one push or one length
\* read.  Wherever caller code runs on a thread (between operations, also
\* while guards are alive, after an operation returned, and in the fallback
\* closure of pull / pull_owned) that thread does not hold the lock; the lock
\* is free when Pool::new returns; the stack changes only under the lock.
C11_LockNeverAcrossCallerCode ==
    /\ [](/\ lock \in {0} \cup Threads
          /\ \A t \in Threads :
                /\ CallerCode(t) => lock # t
                /\ lock = t <=> pc[t] = "locked")
    /\ [][/\ \A t \in Threads : HeldForOne(t)
          /\ lock = 0 => objects' = objects]_vars

\* a thread is in the fallback closure of its pull while the other thread,
\* dropping a guard, holds the lock to push the guard's value
C11_Witness ==
    \E t, u \in Threads :
        /\ pc[t] = "fallback" /\ cur[t].op = "pull"
        /\ lock = u /\ u # t /\ cur[u].op = "drop"
        /\ guards[cur[u].g].st = "dropping"

\* the event is a push: pool.attach by the caller or by a guard's Drop
IsPush(e) == e.op \in {"attach", "drop", "drop_owned"}

\* the operations in the history took effect one after the other: each one
\* found the stack as the one before it left it, and the stack is now as the
\* last one left it
Serialized ==
    /\ \A i \in 1..(W - 1) :
          history[i].op # "none" => history[i + 1].before = history[i].after
    /\ (W > 0 /\ history[W].op # "none") => Len(objects) = history[W].after

\* every pop took the top or found the stack empty, every push added one value
OnePopOnePush ==
    \A i \in 1..W :
        /\ IsPull(history[i])
              => /\ history[i].val = None <=> history[i].before = 0
                 /\ history[i].after =
                       IF history[i].before = 0 THEN 0 ELSE history[i].before - 1
        /\ IsPush(history[i])
              => history[i].val # None /\ history[i].after = history[i].before + 1

\* the value pushed by event i was still in the stack, with nothing above it
\* popped below it, up to event j
StaysBelow(i, j) == \A k \in (i + 1)..j : history[k].after >= history[i].after

\* a pop returns the most recently pushed value that has not been popped yet,
\* and a value pushed and not popped since is in the stack where it was pushed
StackOrder ==
    \A i \in 1..W :
        IsPush(history[i])
        => /\ \A j \in (i + 1)..W :
                 (/\ IsPull(history[j])
                  /\ history[j].before = history[i].after
                  /\ StaysBelow(i, j - 1))
                 => history[j].val = history[i].val
           /\ StaysBelow(i, W) => objects[history[i].after] = history[i].val

\* a value popped twice was pushed in between
NeverPoppedTwice ==
    \A i, j \in 1..W :
        (i < j /\ Popped(history[i]) /\ Popped(history[j])
            /\ history[i].val.id = history[j].val.id)
        => \E k \in (i + 1)..(j - 1) :
              IsPush(history[k]) /\ history[k].val.id = history[i].val.id

\* the stack changes only in a step of the one thread that is in an operation's
\* body under the lock, and that step is one event of the history
UnderTheLock ==
    objects' # objects
       => /\ \E t \in Threads :
                /\ lock = t /\ pc[t] = "locked" /\ pc'[t] # "locked"
                /\ \A u \in Threads \ {t} : pc[u] # "locked" /\ pc'[u] = pc[u]
          /\ lock' = 0
          /\ W > 0 => /\ history' = Append(Tail(history), history'[W])
                      /\ IsPull(history'[W]) \/ IsPush(history'[W])

\* C12: under contention the pool is a sequential stack.  The pops (try_pull,
\* pull, try_pull_owned, pull_owned) and pushes (attach, guard drop) of
\* several threads take effect one at a time, each in a step of the thread
\* that holds the lock; each pop returns the most recently pushed value not
\* popped yet, or None exactly when the stack is empty at that point; no push
\* is lost and no value is popped twice.
C12_SequentialStackUnderContention ==
    /\ [](Serialized /\ OnePopOnePush /\ StackOrder /\ NeverPoppedTwice)
    /\ [][UnderTheLock]_vars

\* two values were pushed, one thread has popped the second one, and the other
\* thread, which waited for the lock meanwhile, is about to pop
C12_Witness ==
    /\ W >= 3
    /\ IsPush(history[W - 2]) /\ IsPush(history[W - 1])
    /\ history[W - 2].val.id # history[W - 1].val.id
    /\ IsPull(history[W]) /\ history[W].val = history[W - 1].val
    /\ objects = <<history[W - 2].val>>
    /\ \E t \in Threads : lock = t /\ cur[t].op \in PullOps
    /\ \E g \in Slots : guards[g].st = "live" /\ guards[g].data = history[W].val

\* the borrowed operation that an owned operation stands for
Erased(o) ==
    CASE o = "try_pull_owned" -> "try_pull"
      [] o = "pull_owned" -> "pull"
      [] o = "drop_owned" -> "drop"
      [] OTHER -> o

\* what a thread is doing, seen through the borrowed API: the end of Drop for
\* ReusableOwned, where only the Arc is released, is not seen
Doing(p, c) ==
    IF p = "release"
       THEN [op |-> "idle", val |-> None, orig |-> None, nmut |-> 0]
       ELSE [op |-> Erased(c.op), val |-> c.val, orig |-> c.orig, nmut |-> c.nmut]

\* the pool and its users without the kind of the guards: the stack, the
\* values wrapped by live guards, what each thread is doing and the result it
\* got, the detached values and the next value to be built
View ==
    [objects  |-> objects,
     guards   |-> InGuards,
     pc       |-> [t \in Threads |-> IF pc[t] = "release" THEN "idle" ELSE pc[t]],
     cur      |-> [t \in Threads |-> Doing(pc[t], cur[t])],
     ret      |-> ret,
     detached |-> detached,
     nextId   |-> nextId]

\* Pool::try_pull and the first half of Pool::pull, on a view
AfterTryPull(v, t) ==
    LET data == pop(v.objects)
        back == data = None /\ v.cur[t].op = "pull"
    IN  [v EXCEPT !.objects = popped(@),
                  !.guards = IF data = None THEN @ ELSE @ \cup {data},
                  !.pc[t] = IF data # None THEN "idle"
                            ELSE IF back THEN "fallback" ELSE "done",
                  !.cur[t] = IF back THEN @ ELSE Doing("idle", Idle),
                  !.ret[t] = IF data = None /\ ~back THEN NoGuard ELSE @]

\* the second half of Pool::pull, on a view
AfterFallback(v, t) ==
    [v EXCEPT !.guards = @ \cup {[id |-> v.nextId, data |-> 0]},
              !.nextId = @ + 1,
              !.pc[t] = "idle",
              !.cur[t] = Doing("idle", Idle)]

\* the start of Drop for Reusable, for the guard around d, on a view
AfterDrop(v, t, d) ==
    [v EXCEPT !.guards = @ \ {d},
              !.pc[t] = "wait",
              !.cur[t] = [op |-> "drop", val |-> d, orig |-> None, nmut |-> 0]]

\* Pool::attach, on a view
AfterAttach(v, t) ==
    [v EXCEPT !.objects = push(@, v.cur[t].val),
              !.pc[t] = "idle",
              !.cur[t] = Doing("idle", Idle)]

\* Reusable::detach of the guard around d, on a view
AfterDetach(v, t, d) ==
    [v EXCEPT !.guards = @ \ {d},
              !.detached = @ \cup {[val |-> d, orig |-> d, nmut |-> 0]}]

\* a step of the owned API by thread t does to the view what the step of the
\* borrowed API it stands for does, and so does the borrowed step itself
SameContract(t) ==
    /\ (try_pull(t) \/ try_pull_owned(t)) => View' = AfterTryPull(View, t)
    /\ (pull(t) \/ pull_owned(t)) => View' = AfterFallback(View, t)
    /\ attach(t) => View' = AfterAttach(View, t)
    /\ release(t) => View' = View
    /\ \A g \in Slots :
          /\ (drop(t, g) \/ drop_owned(t, g)) => View' = AfterDrop(View, t, guards[g].data)
          /\ (detach(t, g) \/ detach_owned(t, g))
                => View' = AfterDetach(View, t, guards[g].data)

\* C13: the owned guard has the contract of the borrowed guard.  Seen without
\* the kind of the guards, every step of try_pull_owned, pull_owned, Drop for
\* ReusableOwned and ReusableOwned::detach changes the stack, the values held
\* in guards, the results (a guard or None) and the detached values exactly
\* as the step of try_pull, pull, Drop for Reusable and Reusable::detach
\* does in the same state, also when guards of both kinds are in use.
C13_OwnedSameAsBorrowed ==
    [][\A t \in Threads : SameContract(t)]_vars

\* guards of both kinds in use: an owned guard has returned its value and has
\* only its Arc left to release, and a borrowed guard wraps that value again
C13_Witness ==
    /\ \E g \in Slots : guards[g].kind = "arc" /\ guards[g].returns = 1
    /\ \E h \in Slots : guards[h].kind = "ref" /\ guards[h].st = "live"
    /\ objects = <<>> /\ nextId = 2

\* the owned guards that hold an Arc: alive, or in their Drop before its end
OwnedGuards == {g \in Slots : guards[g].kind = "arc" /\ Live(g)}

\* the step makes the owned guard of slot g
OwnedCreated(g) == guards[g].st = "free" /\ guards'[g].kind = "arc"

\* the step is the end of an owned pull that returns a guard
OwnedPullEnds ==
    \E t \in Threads :
        /\ pc[t] \in {"locked", "fallback"}
        /\ cur[t].op \in {"try_pull_owned", "pull_owned"}
        /\ pc'[t] = "idle"

\* the strong count equals the handles of the callers plus the owned guards,
\* and the pool is not released (count 0) while an owned guard holds its Arc
CountsHandlesAndGuards ==
    /\ strong = handles + Cardinality(OwnedGuards)
    /\ handles >= 0
    /\ OwnedGuards # {} => strong >= 1

\* what a step does to the strong count when the owned guard of slot g ends:
\* its Drop gives one back, after it pushed the value; detach gives the
\* guard's Arc to the caller
OwnedEnds(g) ==
    /\ (guards[g].kind = "arc" /\ guards[g].st = "dropping" /\ guards'[g].st = "free")
          => /\ guards[g].returns = 1
             /\ strong' = strong - 1
             /\ handles' = handles
    /\ (guards[g].kind = "arc" /\ guards[g].st = "live" /\ guards'[g].st = "free")
          => /\ strong' = strong
             /\ handles' = handles + 1
    /\ (guards[g].kind = "arc" /\ guards[g].st = "live" /\ guards'[g].st = "dropping")
          => strong' = strong /\ handles' = handles

\* the count goes down only at the end of an owned guard's Drop or when a
\* caller drops a handle
DecrementsOnly ==
    strong' < strong
       => \/ \E g \in Slots : guards[g].kind = "arc" /\ guards[g].returns = 1
                              /\ guards'[g].st = "free"
          \/ handles' = handles - 1 /\ guards' = guards

AttachPushes(t) ==
    (pc[t] = "locked" /\ cur[t].op = "attach" /\ pc'[t] # "locked")
       => /\ Len(objects') = Len(objects) + 1
          /\ objects'[Len(objects')] = cur[t].val
          /\ \A i \in 1..Len(objects) : objects'[i] = objects[i]
          /\ pc'[t] = "idle"

\* C15: attach(value) is total and unconditional.  Whatever the length of
\* the stack and the count given to Pool::new, the body of attach can run, it
\* puts the value on top, makes the stack one longer and leaves the elements
\* already there in place and in order; a pull that directly follows returns
\* the value attached; the length may exceed the count given at construction.
C15_AttachAlwaysPushes ==
    /\ [](/\ \A t \in Threads :
                (pc[t] = "locked" /\ cur[t].op = "attach") => ENABLED attach(t)
          /\ \A i \in 1..W :
                history[i].op = "attach"
                => /\ history[i].after = history[i].before + 1
                   /\ (i < W /\ IsPull(history[i + 1]))
                         => history[i + 1].val = history[i].val
                   /\ i = W => /\ Len(objects) = history[i].after
                               /\ objects[Len(objects)] = history[i].val)
    /\ [][\A t \in Threads : AttachPushes(t)]_vars

\* two values built by the caller were attached to a pool made with count 0,
\* which now holds two values
C15_Witness ==
    /\ W >= 2
    /\ history[W - 1].op = "attach" /\ history[W - 1].orig = None
    /\ history[W].op = "attach" /\ history[W].orig = None
    /\ stats.init = <<>> /\ stats.caller = 2
    /\ Len(objects) = 2

\* events i < k of the history are about the same value, and no event in
\* between is
NextOf(i, k) ==
    /\ i < k
    /\ history[k].val.id = history[i].val.id
    /\ \A j \in (i + 1)..(k - 1) : history[j].val.id # history[i].val.id

\* event k pushed the value that the caller held detached, as event e
\* describes it: with the caller's mutations, on top of the stack, one more
\* value in the pool, and returned by a try_pull that directly follows
PushedBack(k, e) ==
    /\ history[k].val = Roundtrip(e)
    /\ history[k].after = history[k].before + 1
    /\ (k < W /\ history[k + 1].op = "try_pull") => history[k + 1].val = Roundtrip(e)
    /\ k = W => objects = Append(SubSeq(objects, 1, history[k].before), Roundtrip(e))

\* C18: wrapping a value the caller holds in a new borrowed guard with
\* Reusable::new(pool, value) and letting the guard go out of scope does to
\* the pool what pool.attach(value) does: the value, with the mutations the
\* caller made while it was detached, goes on top of the stack, the length
\* grows by one, and the next try_pull returns that value.
C18_NewGuardDropIsAttach ==
    \A k \in 1..W :
        /\ Reattach(history[k]) => PushedBack(k, history[k])
        /\ history[k].op = "drop"
              => \A i \in 1..(k - 1) :
                    (history[i].op = "new_guard" /\ NextOf(i, k))
                    => PushedBack(k, history[i])

\* tests::detach: try_pull, detach, one push to the value, Reusable::new, the
\* guard dropped, and try_pull gives the value with the push
C18_Witness ==
    /\ W >= 4
    /\ history[W - 3].op = "try_pull" /\ history[W - 3].val # None
    /\ history[W - 2].op = "new_guard" /\ history[W - 2].nmut = 1
    /\ history[W - 2].val.id = history[W - 3].val.id
    /\ history[W - 1].op = "drop" /\ history[W - 1].val = history[W - 2].val
    /\ history[W].op = "try_pull"
    /\ history[W].val = mutated(history[W - 3].val)

\* the body of len() run by thread t returns the number of elements of the
\* vector the pool was built from, less the values out in guards
LenOfVec(t) ==
    (pc[t] = "locked" /\ cur[t].op = "len" /\ pc'[t] # "locked")
       => /\ ret'[t] = Len(stats.init) - Cardinality(LiveGuards)
          /\ objects' = objects

\* C16: a pool built from a sequence (Pool::from_vec, or collecting an
\* iterator) has the sequence as its stack, in the same order and with the
\* last element on top: len() is the sequence's length, and with every guard
\* kept alive the i-th pull returns the i-th element from the end and pulls
\* beyond the length return None.
C16_FromVecKeepsOrder ==
    /\ [](LET v == stats.init
              n == Len(stats.init)
              k == Cardinality(LiveGuards)
          IN  /\ objects = SubSeq(v, 1, n - k)
              /\ InGuards = {v[i] : i \in (n - k + 1)..n}
              /\ \A j \in 1..W :
                    history[j].op = "from_vec"
                    => /\ history[j].after = n
                       /\ \A i \in (j + 1)..W :
                             /\ history[i].op = "try_pull"
                             /\ history[i].val =
                                   IF i - j <= n THEN v[n + 1 - (i - j)] ELSE None)
    /\ [][\A t \in Threads : LenOfVec(t)]_vars

\* a pool built from a vector of two values, the second one made before the
\* first and the first one not empty: two pulls gave the second, then the first
C16_Witness ==
    /\ W >= 3
    /\ stats.init = <<[id |-> 2, data |-> 1], [id |-> 1, data |-> 0]>>
    /\ history[W - 2].op = "from_vec" /\ history[W - 2].after = 2
    /\ history[W - 1].val = [id |-> 1, data |-> 0]
    /\ history[W].val = [id |-> 2, data |-> 1]
    /\ objects = <<>>

\* the pop of pull / pull_owned run by thread t: on a stack that is not empty
\* it returns a guard around the top, as try_pull does, and fallback is not
\* called; on the empty stack nothing is returned yet and fallback is next
PullPops(t) ==
    (pc[t] = "locked" /\ cur[t].op \in {"pull", "pull_owned"} /\ pc'[t] # "locked")
       => /\ stats' = stats /\ nextId' = nextId
          /\ IF objects # <<>>
                THEN /\ pc'[t] = "idle"
                     /\ objects' = SubSeq(objects, 1, Len(objects) - 1)
                     /\ InGuards' = InGuards \cup {objects[Len(objects)]}
                ELSE /\ pc'[t] = "fallback"
                     /\ objects' = objects
                     /\ guards' = guards

\* try_pull / try_pull_owned run by thread t on a stack that is not empty: the
\* same guard and the same stack as pull gives
TryPullPops(t) ==
    (InTryPull(t) /\ objects # <<>> /\ pc'[t] # "locked")
       => /\ pc'[t] = "idle"
          /\ objects' = SubSeq(objects, 1, Len(objects) - 1)
          /\ InGuards' = InGuards \cup {objects[Len(objects)]}

\* thread t leaves the fallback of its pull: either the closure starts to use
\* the pool, and fallback has not returned yet, or fallback returns its value,
\* which is its one invocation, and the pull returns a guard around it
FallbackOnce(t) ==
    (pc[t] = "fallback" /\ pc'[t] # "fallback")
       => \/ /\ Len(outer'[t]) = Len(outer[t]) + 1
             /\ stats' = stats /\ guards' = guards
          \/ /\ outer' = outer
             /\ stats' = [stats EXCEPT !.fallback = @ + 1]
             /\ pc'[t] = "idle"
             /\ InGuards' = InGuards \cup {[id |-> nextId, data |-> 0]}
             /\ objects' = objects

\* fallback is called by no other step
FallbackOnlyThere ==
    stats'.fallback # stats.fallback
       => \E t \in Threads : pc[t] = "fallback" /\ pc'[t] = "idle"

\* C17: pull(fallback) and pull_owned(fallback) always return a guard and call
\* fallback if and only if their pop finds the stack empty.  On a stack that
\* is not empty they return a guard around the top value as try_pull does,
\* the length goes down by one and fallback is not called; on the empty stack
\* they call fallback exactly once and return a guard around its value.
C17_FallbackIffEmpty ==
    /\ [](\A t \in Threads :
             /\ pc[t] = "fallback"
                   => cur[t].op \in {"pull", "pull_owned"} /\ ret[t] # NoGuard
             /\ (pc[t] = "locked" /\ cur[t].op = "pull") => ENABLED try_pull(t)
             /\ (pc[t] = "locked" /\ cur[t].op = "pull_owned") => ENABLED try_pull_owned(t)
             /\ (pc[t] = "fallback" /\ cur[t].op = "pull") => ENABLED pull(t)
             /\ (pc[t] = "fallback" /\ cur[t].op = "pull_owned") => ENABLED pull_owned(t))
    /\ [][/\ \A t \in Threads : PullPops(t) /\ TryPullPops(t) /\ FallbackOnce(t)
          /\ FallbackOnlyThere]_vars

\* pull_owned has found the stack empty and is about to call fallback, while
\* the value that the fallback of an earlier pull built is out in a guard
C17_Witness ==
    /\ \E t \in Threads : pc[t] = "fallback" /\ cur[t].op = "pull_owned"
    /\ stats.init = <<>> /\ stats.fallback = 1
    /\ objects = <<>>
    /\ \E g \in Slots : guards[g].st = "live" /\ guards[g].data.id = 1

\* thread t has started a pool operation that has not completed: it waits for
\* the lock, runs the operation's body, is in the fallback of its pull or in
\* the pool operations that the fallback calls, or is at the end of a Drop
Running(t) ==
    \/ pc[t] \in {"wait", "locked", "fallback", "release"}
    \/ outer[t] # <<>>

\* C19: deadlock freedom.  With a fair lock and closures that terminate,
\* every operation of the pool that a thread has started (len, is_empty, the
\* four pulls, attach, the Drop of a guard; detach is one step) completes,
\* whatever the other threads do and however many guards are alive, also
\* when the fallback closure of pull / pull_owned uses the same pool.
C19_EveryOperationCompletes ==
    \A t \in Threads : Running(t) ~> ~Running(t)

\* a thread is inside the fallback closure of its pull and, from there, waits
\* for the lock in a nested try_pull, while the other thread holds the lock
\* to attach the value it had detached
C19_Witness ==
    \E t, u \in Threads :
        /\ outer[t] = <<"pull">>
        /\ pc[t] = "wait" /\ cur[t].op = "try_pull"
        /\ lock = u /\ cur[u].op = "attach"

\* the guards that have not returned their value: alive, or in their Drop
\* before its push
Unreturned == {g \in Slots : Live(g) /\ guards[g].returns = 0}

\* the values in the hands of the callers: detached and held, or given to a
\* pool.attach that has not pushed yet
Held ==
    Cardinality(detached)
       + Cardinality({t \in Threads : cur[t].op = "attach" /\ cur[t].val # None})

\* the values that exist: built by the pool's constructor, by a fallback or
\* by the caller, less the detached values the callers dropped
Existing == Len(stats.init) + stats.fallback + stats.caller - stats.discarded

Conserved == Len(objects) + Cardinality(Unreturned) + Held = Existing

\* no guard is alive, no value is detached or was discarded, and no pool
\* operation is in progress
AllReturned ==
    /\ \A g \in Slots : guards[g].st = "free"
    /\ detached = {} /\ stats.discarded = 0
    /\ \A t \in Threads : pc[t] \in {"idle", "done"} /\ outer[t] = <<>>

\* C20 as claimed: the stack's length plus the guards alive plus the detached
\* values held equals the initial count plus the fallback invocations plus
\* the values the caller brought in, less the detached values discarded; once
\* every guard is dropped and nothing was detached, the length is the initial
\* count plus the fallback invocations.
C20_AsClaimed ==
    /\ Conserved
    /\ AllReturned => Len(objects) = Len(stats.init) + stats.fallback

\* C20, amended: the stack's length plus the guards alive plus the detached
\* values held equals the initial count plus the fallback invocations plus
\* the values the caller brought in (by attach or in a guard made with
\* Reusable::new), less the detached values discarded; once every guard is
\* dropped and nothing was detached, the length is the initial count plus the
\* fallback invocations plus the values the caller brought in, so with no
\* such value it is the initial count plus the fallback invocations (a pool
\* of capacity 1 after one try_pull, one failed try_pull and one
\* pull(fallback), all dropped, has length 2).
C20_ValuesAreConserved ==
    /\ Conserved
    /\ AllReturned => Len(objects) = Len(stats.init) + stats.fallback + stats.caller
    /\ (AllReturned /\ stats.caller = 0)
          => Len(objects) = Len(stats.init) + stats.fallback

\* tests::pull: a pool of capacity 1, one value popped and one built by the
\* fallback of pull, both guards dropped: the pool holds 2 values
C20_Witness ==
    /\ AllReturned
    /\ Len(stats.init) = 1 /\ stats.fallback = 1 /\ stats.caller = 0
    /\ Len(objects) = 2

====
